---- MODULE Spec2Model ----
(***************************************************************************)
(* cam2mjpeg: the Frame Reader loop of main, the broadcast hub             *)
(* (requester map, requesterLock, sendImage, registerImgChan,              *)
(* deregisterImgChan) and the sessions (handle / handleMJPEG,              *)
(* handleSnapshot).                                                        *)
(*                                                                         *)
(* Two state machines share this module.  The Reader machine (SpecReader)  *)
(* works on bytes: the pipe, the working buffer buf with its cursors br    *)
(* and bw, and the list of images handed to `go sendImage`.  The Hub       *)
(* machine (Spec, SpecBurst, SpecFair) starts where the Reader hands an    *)
(* image over: one sendImage task per image, the RWMutex, the registry,    *)
(* the subscriber channels and the per-connection handlers.  Its runs      *)
(* differ in what the world outside supplies: the images (feed), the       *)
(* requests (traffic) and whether writes to clients can fail (lossy).      *)
(***************************************************************************)
EXTENDS Integers, Sequences, FiniteSets, Bags, TLC

VARIABLES
    \* ---- Frame Reader (main, part_001 99-139)
    pipe,       \* bytes ffmpeg has written and main has not read yet
    frames,     \* the spans ffmpeg wrote, in order (history of the input)
    buf,        \* the working buffer, BufCap bytes
    br,         \* read cursor
    bw,         \* write position
    emitted,    \* images handed to `go sendImage`, in order
    rstate,     \* "run" | "fatal" (log.Fatal) | "panic" (runtime panic)
    slid,       \* bytes the slides have dropped from the front of buf (history)
    \* ---- Hub and sessions
    feed,       \* images the Reader is still going to validate, in order
    traffic,    \* traffic[s]: the requests connection s may carry in this run
    lossy,      \* whether writes to a client can fail in this run
    validated,  \* images the Reader has handed to `go sendImage`, in order
    tasks,      \* bag of live sendImage goroutines
    requester,  \* keys of the requester map
    chan,       \* chan[s]: contents of session s's imgChan
    closed,     \* closed[s]: imgChan of s has been closed
    sess,       \* sess[s]: the handler goroutine of connection s
    received,   \* received[s]: images s took from its imgChan, in order
    written,    \* written[s]: images s wrote completely to its client
    gone,       \* gone[s]: the client of s has disconnected
    \* ---- history of the Hub
    enqueued,   \* enqueued[s]: images sent on the imgChan of s, in order
    offered,    \* offered[s]: sendImage calls whose range found s in the map
    dropped,    \* dropped[s]: length tests of line 151 that failed for s
    overlap     \* two sendImage calls have held the read lock at once

readerVars == <<pipe, frames, buf, br, bw, emitted, rstate, slid>>
histVars   == <<enqueued, offered, dropped, overlap>>
hubVars    == <<feed, traffic, lossy, validated, tasks, requester, chan, closed,
                sess, received, written, gone, histVars>>
vars       == <<pipe, frames, buf, br, bw, emitted, rstate, slid,
                feed, traffic, lossy, validated, tasks, requester, chan, closed,
                sess, received, written, gone,
                enqueued, offered, dropped, overlap>>

None == "none"

(***************************************************************************)
(* Bytes and markers                                                       *)
(***************************************************************************)
beginOfJPEG == <<255, 216>>
endOfJPEG   == <<255, 217>>

\* Size of the working buffer (10 MB in the program, scaled down here).
BufCap == 8
\* Longest input, in frames, that ffmpeg writes in one run of the Reader.
MaxFrames == 2

Min(a, b) == IF a < b THEN a ELSE b

\* Go slice s[lo:hi] of a sequence (0-based, hi exclusive).
Slice(s, lo, hi) == [i \in 1..(hi - lo) |-> s[lo + i]]

\* bytes.HasPrefix / bytes.HasSuffix
HasPrefix(s, p) == Len(s) >= Len(p) /\ Slice(s, 0, Len(p)) = p
HasSuffix(s, p) == Len(s) >= Len(p) /\ Slice(s, Len(s) - Len(p), Len(s)) = p

\* bytes.Index: 0-based offset of the first occurrence of sep in s, or -1.
Index(s, sep) ==
    LET hits == {i \in 0..(Len(s) - Len(sep)) : Slice(s, i, i + Len(sep)) = sep}
    IN  IF hits = {} THEN -1 ELSE CHOOSE i \in hits : \A j \in hits : i <= j

\* copy(dst, src): the first min(len) bytes of src over the front of dst.
Copy(dst, src) ==
    [i \in 1..Len(dst) |-> IF i <= Min(Len(dst), Len(src)) THEN src[i] ELSE dst[i]]

\* make([]byte, n)
Zeros(n) == [i \in 1..n |-> 0]

RECURSIVE Concat(_)
Concat(ss) == IF ss = <<>> THEN <<>> ELSE Head(ss) \o Concat(Tail(ss))

(***************************************************************************)
(* The input: JPEGs as ffmpeg writes them, each starting with FF D8,       *)
(* ending with FF D9 and holding no other FF D9; and spans of junk that    *)
(* end with FF D9 and start with something else.                           *)
(***************************************************************************)
\* A JPEG one byte longer than the working buffer.
OversizeFrame == beginOfJPEG \o [i \in 1..(BufCap - 3) |-> 7] \o endOfJPEG

SampleFrames ==
    { <<255, 216, 255, 217>>,
      <<255, 216, 7, 255, 217>>,
      <<255, 216, 7, 9, 255, 217>>,
      OversizeFrame }

JunkSpans ==
    { <<7, 255, 217>>,
      <<255, 7, 255, 217>> }

FrameLists == UNION {[1..n -> SampleFrames \cup JunkSpans] : n \in 0..MaxFrames}

(***************************************************************************)
(* Frame Reader: the extraction loop, part_001 125-138.  st is             *)
(* [br, out, panic]; b is buf, w is bw.                                    *)
(***************************************************************************)
\* len passed to make([]byte, eoj-br) at line 127; eoj already counts the marker
ImgLen(eoj, r) == eoj - r

\* a test that looks at the end of the image only
EndsLikeJPEG(img) == HasSuffix(img, endOfJPEG)

\* line 132, negated: the image is passed on
IsJPEG(img) == HasPrefix(img, beginOfJPEG) /\ HasSuffix(img, endOfJPEG)

RECURSIVE Extract(_, _, _)
Extract(b, w, st) ==
    LET rel == Index(Slice(b, st.br, w), endOfJPEG)
    IN  IF rel < 0 \/ st.panic THEN st
        ELSE LET eoj == rel + Len(endOfJPEG)
                 n   == ImgLen(eoj, st.br)
             IN  IF n < 0
                 THEN [st EXCEPT !.panic = TRUE]
                 ELSE LET img == Copy(Zeros(n), Slice(b, st.br, st.br + eoj))
                          ok  == IsJPEG(img)
                      IN  Extract(b, w,
                                  [br    |-> st.br + eoj,
                                   out   |-> IF ok THEN Append(st.out, img) ELSE st.out,
                                   panic |-> FALSE])

\* a slide that moves the cursors and leaves the bytes where they are
SlideNothing == buf

\* lines 106-110: slide the unread remains to the front
SlideBuf == IF br > 0 THEN Copy(buf, Slice(buf, br, bw)) ELSE buf
SlideBw  == IF br > 0 THEN bw - br ELSE bw

\* One pass of the for loop at line 104 in which out.Read returns n bytes.
ReadChunk(n) ==
    /\ rstate = "run"
    /\ n \in 1..Min(Len(pipe), BufCap - SlideBw)
    /\ LET b0 == SlideBuf
           w0 == SlideBw
           b1 == [i \in 1..BufCap |->
                    IF i > w0 /\ i <= w0 + n THEN pipe[i - w0] ELSE b0[i]]
           w1 == w0 + n
           st == Extract(b1, w1, [br |-> 0, out |-> <<>>, panic |-> FALSE])
       IN  /\ pipe' = SubSeq(pipe, n + 1, Len(pipe))
           /\ buf' = b1
           /\ bw' = w1
           /\ br' = st.br
           /\ emitted' = emitted \o st.out
           /\ rstate' = IF st.panic THEN "panic" ELSE "run"
    /\ slid' = slid \o Slice(buf, 0, br)
    /\ UNCHANGED <<frames, hubVars>>

\* A pass in which the buffer has no room: Read on an empty slice returns 0, nil
\* (lines 113-122).
ReadNothing ==
    /\ rstate = "run"
    /\ BufCap - SlideBw = 0
    /\ buf' = SlideBuf
    /\ bw' = SlideBw
    /\ br' = 0
    /\ slid' = slid \o Slice(buf, 0, br)
    /\ UNCHANGED <<pipe, frames, emitted, rstate, hubVars>>

\* ffmpeg has closed the pipe and all of it was read: Read fails, log.Fatal.
\* A Read on an empty slice does not fail, even then.
ReadError ==
    /\ rstate = "run"
    /\ pipe = <<>>
    /\ BufCap - SlideBw > 0
    /\ rstate' = "fatal"
    /\ UNCHANGED <<pipe, frames, buf, br, bw, emitted, slid, hubVars>>

ReaderInit ==
    /\ frames \in FrameLists
    /\ pipe = Concat(frames)
    /\ buf = Zeros(BufCap)
    /\ br = 0
    /\ bw = 0
    /\ emitted = <<>>
    /\ rstate = "run"
    /\ slid = <<>>

ReaderNext ==
    \/ \E n \in 1..BufCap : ReadChunk(n)
    \/ ReadNothing
    \/ ReadError

(***************************************************************************)
(* Hub: constants                                                          *)
(***************************************************************************)
maxBacklog == 5
\* make(chan []byte, 10)
ChanCap == 10
\* if errC > 5
ErrLimit == 5

\* Connections the HTTP server accepts in one run.
NumConns == 2
\* Images the Reader validates back to back in the burst feed.
Burst == 12

Conns == 1..NumConns
\* cur of a task that is not at a subscriber
NoConn == 0
Routes == {"/mjpeg", "/snapshot.jpg"}
Methods == {"GET", "POST"}

ImgA == <<255, 216, 255, 217>>
ImgB == <<255, 216, 7, 255, 217>>
ImgC == <<255, 216, 7, 9, 255, 217>>

\* What the Reader validates in one run: two different images, or a burst
\* of equal ones.
DistinctFeed == <<ImgA, ImgB>>
BurstFeed == [i \in 1..Burst |-> ImgA]

AllTraffic == Routes \X Methods

\* A handler goroutine that has not been started.
Idle == [pc |-> "idle", route |-> None, method |-> None, errC |-> 0,
         okAt |-> 0, exit |-> None]

(***************************************************************************)
(* requesterLock (sync.RWMutex).  A handler at "reg_lock" or "dereg_lock"  *)
(* has called Lock and is blocked in it; a pending Lock keeps new RLock    *)
(* calls out.  A sendImage task at "range" or "send" holds the read lock.  *)
(***************************************************************************)
Readers == {t \in BagToSet(tasks) : t.pc \in {"range", "send"}}
WriterPending == \E s \in Conns : sess[s].pc \in {"reg_lock", "dereg_lock"}
CanRLock == ~WriterPending
\* a Lock that is granted while read locks are held
LockAtOnce == TRUE

CanLock == Readers = {}

AddTask(t) == tasks (+) SetToBag({t})
DelTask(t) == tasks (-) SetToBag({t})
Move(t, u) == (tasks (-) SetToBag({t})) (+) SetToBag({u})

(***************************************************************************)
(* main, part_001 137: go sendImage(img)                                   *)
(***************************************************************************)
\* sendImage(img) called by the Reader itself: the Reader is back in its
\* loop only when the call has returned
CallSendImage ==
    /\ feed # <<>>
    /\ tasks = EmptyBag
    /\ feed' = Tail(feed)
    /\ validated' = Append(validated, Head(feed))
    /\ tasks' = AddTask([img |-> Head(feed), pc |-> "rlock", todo |-> {}, cur |-> NoConn])
    /\ UNCHANGED <<traffic, lossy, requester, chan, closed, sess, received, written, gone,
                   readerVars, histVars>>

GoSendImage ==
    /\ feed # <<>>
    /\ feed' = Tail(feed)
    /\ validated' = Append(validated, Head(feed))
    /\ tasks' = AddTask([img |-> Head(feed), pc |-> "rlock", todo |-> {}, cur |-> NoConn])
    /\ UNCHANGED <<traffic, lossy, requester, chan, closed, sess, received, written, gone,
                   readerVars, histVars>>

(***************************************************************************)
(* sendImage, part_001 142-157                                             *)
(***************************************************************************)
\* a length test that still passes at maxBacklog
UpToBacklog(c) == Len(c) <= maxBacklog

\* line 151
BelowBacklog(c) == Len(c) < maxBacklog

\* a task that returns after the first subscriber it is through with
ReturnEarly(t, rest) == DelTask(t)

\* the task after it is through with one subscriber: on to the next, or
\* out of the loop, RUnlock and return
Onward(t, rest) ==
    IF rest = {} THEN DelTask(t)
    ELSE Move(t, [t EXCEPT !.pc = "range", !.todo = rest, !.cur = NoConn])

\* lines 143-148: RLock; return at once when the map is empty
SendRLock(t) ==
    /\ t.pc = "rlock"
    /\ CanRLock
    /\ tasks' = IF requester = {} THEN DelTask(t)
                ELSE Move(t, [t EXCEPT !.pc = "range", !.todo = requester])
    /\ offered' = [s \in Conns |-> IF s \in requester THEN offered[s] + 1 ELSE offered[s]]
    /\ overlap' = (overlap \/ (requester # {} /\ Readers # {}))
    /\ UNCHANGED <<feed, traffic, lossy, validated, requester, chan, closed, sess, received,
                   written, gone, readerVars, enqueued, dropped>>

\* lines 150-151: the next map entry, in the map's own order, and its length test
SendCheck(t, s) ==
    /\ t.pc = "range"
    /\ s \in t.todo
    /\ tasks' = IF BelowBacklog(chan[s])
                THEN Move(t, [t EXCEPT !.pc = "send", !.todo = t.todo \ {s}, !.cur = s])
                ELSE Onward(t, t.todo \ {s})
    /\ dropped' = [dropped EXCEPT ![s] = IF BelowBacklog(chan[s]) THEN @ ELSE @ + 1]
    /\ UNCHANGED <<feed, traffic, lossy, validated, requester, chan, closed, sess, received,
                   written, gone, readerVars, enqueued, offered, overlap>>

\* line 152: c <- jpg, which waits while the channel is full.  The channel
\* of a subscriber a task still has to serve is open: it is closed only
\* after deregisterImgChan, which needs the lock without readers.
SendEnqueue(t) ==
    /\ t.pc = "send"
    /\ Len(chan[t.cur]) < ChanCap
    /\ ~closed[t.cur]
    /\ chan' = [chan EXCEPT ![t.cur] = Append(@, t.img)]
    /\ enqueued' = [enqueued EXCEPT ![t.cur] = Append(@, t.img)]
    /\ tasks' = Onward(t, t.todo)
    /\ UNCHANGED <<feed, traffic, lossy, validated, requester, closed, sess, received,
                   written, gone, readerVars, offered, dropped, overlap>>

(***************************************************************************)
(* handle 159-171, handleSnapshot 173-191: entry                           *)
(***************************************************************************)
\* A request arrives; the handler makes its channel and calls registerImgChan.
Connect(s, route, method) ==
    /\ sess[s].pc = "idle"
    /\ \A r \in 1..(s - 1) : sess[r].pc # "idle"
    /\ <<route, method>> \in traffic[s]
    /\ sess' = [sess EXCEPT ![s] = [@ EXCEPT !.pc = "reg_lock", !.route = route,
                                             !.method = method]]
    /\ UNCHANGED <<feed, traffic, lossy, validated, tasks, requester, chan, closed, received,
                   written, gone, readerVars, histVars>>

\* registerImgChan 193-199, from the moment Lock is granted to Unlock
registerImgChan(s) ==
    /\ sess[s].pc = "reg_lock"
    /\ CanLock
    /\ requester' = requester \cup {s}
    /\ sess' = [sess EXCEPT ![s].pc = IF sess[s].route = "/mjpeg" THEN "enter" ELSE "wait"]
    /\ UNCHANGED <<feed, traffic, lossy, validated, tasks, chan, closed, received, written, gone,
                   readerVars, histVars>>

\* deregisterImgChan 201-207, from the moment Lock is granted to Unlock
deregisterImgChan(s) ==
    /\ sess[s].pc = "dereg_lock"
    /\ CanLock
    /\ requester' = requester \ {s}
    /\ sess' = [sess EXCEPT ![s].pc = "close"]
    /\ UNCHANGED <<feed, traffic, lossy, validated, tasks, chan, closed, received, written, gone,
                   readerVars, histVars>>

\* the deferred close(imgChan), lines 165 and 179
CloseChan(s) ==
    /\ sess[s].pc = "close"
    /\ closed' = [closed EXCEPT ![s] = TRUE]
    /\ sess' = [sess EXCEPT ![s].pc = "done"]
    /\ UNCHANGED <<feed, traffic, lossy, validated, tasks, requester, chan, received, written, gone,
                   readerVars, histVars>>

\* The client goes away: CloseNotify fires.
Disconnect(s) ==
    /\ sess[s].pc \notin {"idle", "done"}
    /\ ~gone[s]
    /\ gone' = [gone EXCEPT ![s] = TRUE]
    /\ UNCHANGED <<feed, traffic, lossy, validated, tasks, requester, chan, closed, sess, received,
                   written, readerVars, histVars>>

\* a receive that takes the newest element of the channel
RecvNewest(c) == c[Len(c)]

\* img := <-imgs (mjpeg.go 38), img := <-imgChan (part_001 184): the oldest
\* element of the channel
Recv(c) == Head(c)

(***************************************************************************)
(* handleMJPEG, mjpeg.go 14-66                                             *)
(***************************************************************************)
\* the test of line 57 taken one failure early
TooManyErrorsEarly(e) == e >= ErrLimit

\* line 57
TooManyErrors(e) == e > ErrLimit

\* lines 15-31: the method test, then the headers
MJPEGEnter(s) ==
    /\ sess[s].pc = "enter"
    /\ sess' = [sess EXCEPT ![s] =
                  IF sess[s].method # "GET"
                  THEN [@ EXCEPT !.pc = "dereg_lock", !.exit = "405"]
                  ELSE [@ EXCEPT !.pc = "loop"]]
    /\ UNCHANGED <<feed, traffic, lossy, validated, tasks, requester, chan, closed, received,
                   written, gone, readerVars, histVars>>

\* lines 35-36: case <-cn
MJPEGClosed(s) ==
    /\ sess[s].pc = "loop"
    /\ gone[s]
    /\ sess' = [sess EXCEPT ![s] = [@ EXCEPT !.pc = "dereg_lock", !.exit = "closed"]]
    /\ UNCHANGED <<feed, traffic, lossy, validated, tasks, requester, chan, closed, received,
                   written, gone, readerVars, histVars>>

\* lines 38-64: case img := <-imgs, the part is written (ok) or the write fails
MJPEGFrame(s, ok) ==
    /\ sess[s].pc = "loop"
    /\ chan[s] # <<>>
    /\ ok \/ lossy
    /\ chan' = [chan EXCEPT ![s] = Tail(@)]
    /\ received' = [received EXCEPT ![s] = Append(@, Recv(chan[s]))]
    /\ written' = [written EXCEPT ![s] = IF ok THEN Append(@, Recv(chan[s])) ELSE @]
    /\ sess' = [sess EXCEPT ![s] =
                  IF ok THEN [@ EXCEPT !.errC = 0, !.okAt = Len(received[s]) + 1]
                  ELSE IF TooManyErrors(sess[s].errC + 1)
                       THEN [@ EXCEPT !.errC = @ + 1, !.pc = "dereg_lock", !.exit = "fatal"]
                       ELSE [@ EXCEPT !.errC = @ + 1]]
    /\ UNCHANGED <<feed, traffic, lossy, validated, tasks, requester, closed, gone, readerVars, histVars>>

(***************************************************************************)
(* handleSnapshot, part_001 184-190                                        *)
(***************************************************************************)
\* img := <-imgChan, the headers, w.Write(img), return
SnapshotFrame(s, ok) ==
    /\ sess[s].pc = "wait"
    /\ chan[s] # <<>>
    /\ ok \/ lossy
    /\ chan' = [chan EXCEPT ![s] = Tail(@)]
    /\ received' = [received EXCEPT ![s] = Append(@, Recv(chan[s]))]
    /\ written' = [written EXCEPT ![s] = IF ok THEN Append(@, Recv(chan[s])) ELSE @]
    /\ sess' = [sess EXCEPT ![s] = [@ EXCEPT !.pc = "dereg_lock", !.exit = "served"]]
    /\ UNCHANGED <<feed, traffic, lossy, validated, tasks, requester, closed, gone, readerVars, histVars>>

(***************************************************************************)
(* The Hub machine                                                         *)
(***************************************************************************)
HubInit(f, tr, l) ==
    /\ feed = f
    /\ traffic = tr
    /\ lossy = l
    /\ validated = <<>>
    /\ tasks = EmptyBag
    /\ requester = {}
    /\ chan = [s \in Conns |-> <<>>]
    /\ closed = [s \in Conns |-> FALSE]
    /\ sess = [s \in Conns |-> Idle]
    /\ received = [s \in Conns |-> <<>>]
    /\ written = [s \in Conns |-> <<>>]
    /\ gone = [s \in Conns |-> FALSE]
    /\ enqueued = [s \in Conns |-> <<>>]
    /\ offered = [s \in Conns |-> 0]
    /\ dropped = [s \in Conns |-> 0]
    /\ overlap = FALSE

\* The Reader at rest, for the Hub machine.
ReaderIdle ==
    /\ pipe = <<>>
    /\ frames = <<>>
    /\ buf = Zeros(BufCap)
    /\ br = 0
    /\ bw = 0
    /\ emitted = <<>>
    /\ rstate = "run"
    /\ slid = <<>>

\* Steps of the program's goroutines.
TaskNext ==
    \/ \E t \in BagToSet(tasks) : SendRLock(t)
    \/ \E t \in BagToSet(tasks), s \in Conns : SendCheck(t, s)
    \/ \E t \in BagToSet(tasks) : SendEnqueue(t)

SessNext(s) ==
    \/ registerImgChan(s)
    \/ deregisterImgChan(s)
    \/ CloseChan(s)
    \/ MJPEGEnter(s)
    \/ MJPEGClosed(s)
    \/ \E ok \in BOOLEAN : MJPEGFrame(s, ok)
    \/ \E ok \in BOOLEAN : SnapshotFrame(s, ok)

\* Steps of the world outside: images arriving, clients coming and going.
EnvNext ==
    \/ GoSendImage
    \/ \E s \in Conns, r \in Routes, m \in Methods : Connect(s, r, m)
    \/ \E s \in Conns : Disconnect(s)

HubNext == TaskNext \/ (\E s \in Conns : SessNext(s)) \/ EnvNext

\* Two different images, every kind of request.
Init == HubInit(DistinctFeed, [s \in Conns |-> AllTraffic], TRUE) /\ ReaderIdle
Spec == Init /\ [][HubNext]_vars

\* One image, every kind of request; every goroutine that can run does run.
\* Images arriving and clients coming and going are up to the world outside.
OneFeed == <<ImgA>>
GoroutineNext == TaskNext \/ \E s \in Conns : SessNext(s)
InitFair == HubInit(OneFeed, [s \in Conns |-> AllTraffic], TRUE) /\ ReaderIdle
SpecFair ==
    /\ InitFair
    /\ [][HubNext]_vars
    /\ WF_vars(TaskNext)
    /\ \A s \in Conns : WF_vars(SessNext(s))

\* A burst of images and a single client, streaming or taking a snapshot.
BurstTraffic == [s \in Conns |-> IF s = 1 THEN Routes \X {"GET"} ELSE {}]

InitBurst == HubInit(BurstFeed, BurstTraffic, TRUE) /\ ReaderIdle
SpecBurst == InitBurst /\ [][HubNext]_vars

\* The Hub at rest, for the Reader machine.
HubIdle ==
    /\ feed = <<>>
    /\ traffic = <<>>
    /\ lossy = FALSE
    /\ validated = <<>>
    /\ tasks = EmptyBag
    /\ requester = {}
    /\ chan = <<>>
    /\ closed = <<>>
    /\ sess = <<>>
    /\ received = <<>>
    /\ written = <<>>
    /\ gone = <<>>
    /\ enqueued = <<>>
    /\ offered = <<>>
    /\ dropped = <<>>
    /\ overlap = FALSE

InitReader == ReaderInit /\ HubIdle
SpecReader == InitReader /\ [][ReaderNext]_vars

(***************************************************************************)
(* Properties                                                              *)
(***************************************************************************)
IsPrefix(a, b) == Len(a) <= Len(b) /\ a = SubSeq(b, 1, Len(a))

RECURSIVE IsSubseq(_, _)
IsSubseq(a, b) ==
    IF a = <<>> THEN TRUE
    ELSE IF b = <<>> THEN FALSE
    ELSE IF Head(a) = Head(b) THEN IsSubseq(Tail(a), Tail(b))
    ELSE IsSubseq(a, Tail(b))

\* a sendImage task that waits in its channel send on subscriber s
BlockedOn(t, s) == t.pc = "send" /\ t.cur = s /\ Len(chan[s]) >= ChanCap
LockWaiters == {s \in Conns : sess[s].pc \in {"reg_lock", "dereg_lock"}}

\* C1: Boundary extraction.  For an input that is a concatenation of JPEGs,
\* however it is cut into reads, the Reader never faults, hands over the
\* source frames in input order and nothing else, and once the whole input
\* has been read it has handed over every one of them.
BoundaryExtraction ==
    (\A i \in 1..Len(frames) : frames[i] \in SampleFrames) =>
        /\ rstate # "panic"
        /\ IsPrefix(emitted, frames)
        /\ pipe = <<>> => emitted = frames

\* C2: Per-subscriber FIFO.  What a subscriber has taken from its queue is,
\* in order, a subsequence of what the Reader validated: two images never
\* come out in the opposite order to the one they were validated in.
FifoPerSubscriber == \A s \in Conns : IsSubseq(received[s], validated)

\* C3: publish never blocks.  A sendImage task that has decided to enqueue
\* can always do so at once: its channel send never finds the queue full.
PublishNeverBlocks ==
    \A t \in BagToSet(tasks) : t.pc = "send" => ENABLED SendEnqueue(t)

\* C4: Backpressure isolation.  While a registered subscriber a has never
\* drained its queue, no sendImage task is held up in a send to a, so none
\* is kept from the subscribers it has still to visit and no register or
\* deregister call waits behind it.
BackpressureIsolation ==
    \A a \in requester :
        received[a] = <<>> =>
            \A t \in Readers : ~BlockedOn(t, a)

\* C5: Deadlock freedom of the registry.  Whenever a sendImage task or a
\* register/deregister call is waiting, some goroutine can take a step (the
\* wait is not for ever), and a task inside its iteration has each
\* registered subscriber either behind it or still ahead of it, never both.
RegistryDeadlockFree ==
    /\ (LockWaiters # {} \/ \E t \in BagToSet(tasks) : t.pc \in {"rlock", "send"})
          => ENABLED GoroutineNext
    /\ \A t \in BagToSet(tasks) :
          t.pc \in {"range", "send"} => t.todo \subseteq requester /\ t.cur \notin t.todo

\* C6: Session lifecycle.  Once every client has disconnected, the registry
\* eventually holds no entry.
SessionsAllDeregister ==
    (\A s \in Conns : sess[s].pc # "idle" /\ gone[s]) ~> (requester = {})

\* C7: Threshold termination.  In the streaming loop the error counter is
\* the number of images taken since the last one that was written, and is
\* between 0 and 5; a session ends on errors exactly when that number is 6;
\* every image written was taken from the queue, at most once.
Streak(s) == Len(received[s]) - sess[s].okAt
ThresholdTermination ==
    \A s \in Conns :
        sess[s].route = "/mjpeg" =>
            /\ sess[s].pc = "loop" => sess[s].errC = Streak(s) /\ sess[s].errC \in 0..5
            /\ sess[s].exit = "fatal" <=> Streak(s) = 6
            /\ Streak(s) <= 6
            /\ Len(written[s]) + sess[s].errC <= Len(received[s])
            /\ IsSubseq(written[s], received[s])

\* a session that wrote an image, then failed six times in a row and ended
ThresholdWitness ==
    \E s \in Conns :
        sess[s].exit = "fatal" /\ sess[s].okAt >= 1 /\ Len(received[s]) = sess[s].okAt + 6

\* C8: A non-GET request on /mjpeg is never in the registry, and no image is
\* ever enqueued for it.
NonGetNeverRegistered ==
    \A s \in Conns :
        sess[s].route = "/mjpeg" /\ sess[s].method # "GET" =>
            s \notin requester /\ chan[s] = <<>>

\* C9: A non-GET request on either route has no image written to its client
\* and, when its handler is through, has ended with 405.
NonGetEnds405 ==
    \A s \in Conns :
        sess[s].pc # "idle" /\ sess[s].method # "GET" =>
            /\ written[s] = <<>>
            /\ sess[s].exit \in {None, "405"}

\* C10: Snapshot release on disconnect.  A snapshot session whose client has
\* gone while it waits for an image eventually gets out of the wait and
\* ends deregistered.
SnapshotReleased ==
    \A s \in Conns :
        (sess[s].route = "/snapshot.jpg" /\ sess[s].pc = "wait" /\ gone[s])
            ~> (sess[s].pc = "done" /\ s \notin requester)

StreamingCancellation ==
    [][\A s \in Conns :
          (sess[s].route = "/mjpeg" /\ gone[s]) => written'[s] = written[s]]_vars

\* sendImage calls that still have s before them: s not yet visited by the
\* range, or the send to s decided on and not yet done
Pending(s) ==
    LET live == {t \in BagToSet(tasks) : s \in t.todo \/ (t.pc = "send" /\ t.cur = s)}
    IN  BagCardinality([t \in live |-> CopiesIn(t, tasks)])

Count(img, seq) == Cardinality({i \in 1..Len(seq) : seq[i] = img})

InvalidFrameRejection ==
    /\ \A i \in 1..Len(emitted) :
           /\ HasPrefix(emitted[i], beginOfJPEG)
           /\ HasSuffix(emitted[i], endOfJPEG)
           /\ emitted[i] \notin JunkSpans
    /\ rstate = "run" => Index(Slice(buf, br, bw), endOfJPEG) < 0

\* The whole input has been read: junk first, which was discarded, then a
\* JPEG, which was handed over.
InvalidFrameWitness ==
    /\ Len(frames) = 2
    /\ frames[1] \in JunkSpans
    /\ frames[2] \in SampleFrames
    /\ pipe = <<>>
    /\ emitted = <<frames[2]>>
    /\ br = bw

\* C15: a sendImage call under way sends only to subscribers that are in
\* the map; a session that is through with deregisterImgChan is not in the
\* map; a channel is closed only by a session that has deregistered; hence
\* no call is ever at the send of a closed channel.
NoSendAfterDeregister ==
    /\ \A t \in Readers :
           /\ t.todo \subseteq requester
           /\ t.pc = "send" => t.cur \in requester
    /\ \A s \in Conns :
           /\ sess[s].pc \in {"close", "done"} => s \notin requester
           /\ closed[s] => sess[s].pc = "done"
    /\ \A t \in BagToSet(tasks) : t.pc = "send" => ~closed[t.cur]

\* A session that was sent the first image has deregistered and closed its
\* channel; the sendImage call for the second image is at the send to the
\* other subscriber.
NoSendAfterDeregisterWitness ==
    \E s \in Conns :
        /\ closed[s]
        /\ enqueued[s] = <<ImgA>>
        /\ \E t \in Readers : t.pc = "send" /\ t.img = ImgB /\ t.cur # s

\* C16: when the buffer is full from its first byte to its last and holds
\* no end marker, the Reader has a step that changes its state (the claim:
\* the step into the fatal state); it is not left with passes that read
\* nothing and change nothing.
BufferExhaustionFatal ==
    (rstate = "run" /\ br = 0 /\ bw = BufCap /\ Index(buf, endOfJPEG) < 0)
        => ENABLED <<ReaderNext>>_vars

\* C17: whatever state the Hub and the sessions are in, the Reader can
\* hand over its next image and go on: the handing over waits neither for
\* the registry lock nor for a subscriber's queue nor for sendImage calls
\* under way.
ReaderNeverBlocks == feed # <<>> => ENABLED GoSendImage

\* The Reader has an image to hand over while a sendImage call is blocked
\* at the send to a full queue and the session of that queue waits for the
\* write lock.
ReaderNeverBlocksWitness ==
    /\ feed # <<>>
    /\ \E t \in Readers, s \in Conns : BlockedOn(t, s) /\ sess[s].pc = "dereg_lock"

\* C18: a length test fails for a subscriber only when its queue holds
\* maxBacklog images or more, so not before that many were sent to it; and
\* as long as no two sendImage calls have held the read lock at once, a call
\* at a send finds fewer than maxBacklog images in the queue, no queue holds
\* more than maxBacklog, and no call waits at a send.
WatermarkPolicy ==
    /\ \A s \in Conns : dropped[s] > 0 => Len(enqueued[s]) >= maxBacklog
    /\ ~overlap =>
          /\ \A s \in Conns : Len(chan[s]) <= maxBacklog
          /\ \A t \in BagToSet(tasks) :
                 t.pc = "send" => (Len(chan[t.cur]) < maxBacklog /\ ENABLED SendEnqueue(t))

\* Calls one after the other have filled the queue of a subscriber that
\* takes nothing up to maxBacklog, later ones were dropped, and one more
\* has just failed the test.
WatermarkWitness ==
    \E s \in Conns :
        /\ ~overlap
        /\ received[s] = <<>>
        /\ Len(chan[s]) = maxBacklog
        /\ dropped[s] = Burst - maxBacklog
        /\ tasks = EmptyBag

\* the input read so far
InputRead == SubSeq(Concat(frames), 1, Len(Concat(frames)) - Len(pipe))

\* C19: after every pass of the Reader 0 <= br <= bw <= BufCap, and the
\* bytes the cursor has passed (those slid out of the buffer, then those
\* before br) followed by the bytes from br to bw are the input read so
\* far, byte for byte.
StreamBufferInvariant ==
    /\ 0 <= br
    /\ br <= bw
    /\ bw <= BufCap
    /\ slid \o Slice(buf, 0, br) \o Slice(buf, br, bw) = InputRead

\* After a slide that dropped a whole span from the front: the buffer holds
\* the first bytes of the next span, more of which is still in the pipe.
StreamBufferWitness ==
    /\ Len(frames) = 2
    /\ slid = frames[1]
    /\ br = 0
    /\ bw > 1
    /\ pipe # <<>>

\* C20: the extraction loop never faults: in no pass, whatever the input
\* and however it is cut into reads, is the length handed to make at line
\* 127 negative; the Reader stops through log.Fatal only.
ExtractionNeverFaults == rstate # "panic"

====
